---- MODULE Spec2Model ----
(***************************************************************************)
(* localblocksync: differential copy of a source file / block device onto  *)
(* a destination file / block device (src/src/main.rs, fn copy).           *)
(*                                                                         *)
(* Files are sequences of bytes.  One model byte stands for one byte of    *)
(* the program; the two scale factors of main.rs:161-162 (1024*1024 and    *)
(* 1024) are scaled down to MiB and KiB so that windows and sub-blocks of  *)
(* several bytes fit in small files.                                       *)
(*                                                                         *)
(* A behaviour of Spec is one invocation of copy.  In SpecTwice it may be  *)
(* followed by a second invocation: either the same command again on the   *)
(* destination the first one left, or the other mode (un-threaded after    *)
(* threaded) on the original destination; the result of the threaded       *)
(* invocation is then kept in first.                                       *)
(***************************************************************************)
EXTENDS Integers, Sequences, FiniteSets

\* ------------------------------------------------- scaled program constants
MiB == 2             \* stands for 1024*1024 of main.rs:161
KiB == 1             \* stands for 1024 of main.rs:162

\* ---------------------------------------------------------------- bounds
MaxSrc == 3          \* longest source, in bytes
MaxChunck == 2       \* largest --chunck argument

\* largest --buffer argument: buffers up to one that holds the longest source
\* with room to spare; all larger ones read it in the same single window
MaxBuffer == (MaxSrc + 1) \div MiB

Byte == {0, 1}
Files(n) == UNION {[1..k -> Byte] : k \in 0..n}

Min(a, b) == IF a < b THEN a ELSE b
Max(a, b) == IF a > b THEN a ELSE b

VARIABLES
  src,              \* source content (never written)
  src_exists,       \* the source path exists
  dst,              \* destination content
  dst_exists,       \* the destination path exists
  dst_is_blk,       \* is_block_device(dst_path) answers true
  threaded, buffer_arg, chunck_size,   \* parameters of copy
  pc,               \* position of the calling thread in copy
  outcome,          \* how the invocation ended
  src_size, dst_size,
  buffer_size, block_size,
  buffer_src, buffer_dst,
  src_cursor, dst_cursor,   \* sequential read positions of the two handles
  src_len, dst_len,
  fp, bytes_written,
  block_start_pos, block_pos, current_block_differ,
  wpc,              \* position of the worker thread
  locks,            \* holder of each of the three mutexes
  io_failed,        \* a read, write or resize call of this invocation failed
  io_failed_at,     \* <<writes issued, windows compared, call>> when a call first failed
  writes,           \* the write_at calls of this invocation: <<offset, length>>
  resized,          \* ftruncate64 was called in this invocation
  compared,         \* number of windows compared in this invocation
  spawned, joined,  \* number of worker threads spawned / joined in this invocation
  dst_start,        \* destination content when this invocation started
  dst_start_exists,
  dst_prep,         \* destination content when the copy loop started
  run,              \* 1: first invocation, 2: second invocation
  second,           \* what the second invocation is: "none", "again", "other"
  first             \* result of the first invocation, for the second one

vars == <<src, src_exists, dst, dst_exists, dst_is_blk, threaded, buffer_arg, chunck_size,
          pc, outcome, src_size, dst_size, buffer_size, block_size,
          buffer_src, buffer_dst, src_cursor, dst_cursor, src_len, dst_len,
          fp, bytes_written, block_start_pos, block_pos, current_block_differ,
          wpc, locks, io_failed, io_failed_at, writes, resized, compared,
          spawned, joined,
          dst_start, dst_start_exists, dst_prep, run, second, first>>

\* groups of variables an action leaves alone
env     == <<src, src_exists, dst_is_blk, threaded, buffer_arg, chunck_size>>
harness == <<dst_start, dst_start_exists, run, second, first>>
sizes   == <<src_size, dst_size>>
config  == <<buffer_size, block_size>>
scan    == <<block_start_pos, block_pos, current_block_differ>>
threads == <<spawned, joined>>
counters == <<fp, bytes_written>>

\* ------------------------------------------------------------ system calls

\* read(2) on a handle at position pos into a buffer: number of bytes read
ReadLen(file, pos, buf) == Min(Len(buf), Max(Len(file) - pos, 0))

\* read(2): the buffer afterwards; bytes past the read length keep their value
ReadInto(file, pos, buf) ==
  [i \in 1..Len(buf) |->
     IF i <= ReadLen(file, pos, buf) THEN file[pos + i] ELSE buf[i]]

\* buffer[a .. b] of Rust: bytes at 0-based offsets a .. b-1
Slice(buf, a, b) == SubSeq(buf, a + 1, b)

\* pwrite(2): the file after writing data at offset off
WriteAt(file, data, off) ==
  [i \in 1..Max(Len(file), off + Len(data)) |->
     IF i > off /\ i <= off + Len(data) THEN data[i - off]
     ELSE IF i <= Len(file) THEN file[i] ELSE 0]

\* ftruncate64(2): the file cut or zero-extended to n bytes
Ftruncate(file, n) ==
  [i \in 1..n |-> IF i <= Len(file) THEN file[i] ELSE 0]

\* vec![0u8; n]
ZeroVec(n) == [i \in 1..n |-> 0]

NoLocks == [m \in {"src_len", "src_file", "buffer_src"} |-> "none"]

NoResult == [ended |-> FALSE, dst |-> <<>>, bytes_written |-> 0,
             writes |-> <<>>, outcome |-> "running", io_failed |-> FALSE]

\* -------------------------------------------------------------------- Init
Init ==
  /\ src \in Files(MaxSrc)
  /\ src_exists \in BOOLEAN
  /\ ~src_exists => src = <<>>
  /\ dst_is_blk \in BOOLEAN
  /\ dst_exists \in BOOLEAN
  /\ dst \in Files(Len(src) + 1)
  /\ dst_is_blk => dst_exists
  /\ ~dst_exists => dst = <<>>
  /\ threaded \in BOOLEAN
  /\ buffer_arg \in 1..MaxBuffer
  /\ chunck_size \in 1..MaxChunck
  /\ pc = "start"
  /\ outcome = "running"
  /\ src_size = 0 /\ dst_size = 0
  /\ buffer_size = 0 /\ block_size = 0
  /\ buffer_src = <<>> /\ buffer_dst = <<>>
  /\ src_cursor = 0 /\ dst_cursor = 0
  /\ src_len = 0 /\ dst_len = 0
  /\ fp = 0 /\ bytes_written = 0
  /\ block_start_pos = 0 /\ block_pos = 0 /\ current_block_differ = FALSE
  /\ wpc = "none"
  /\ locks = NoLocks
  /\ io_failed = FALSE /\ io_failed_at = <<0, 0, "none">>
  /\ writes = <<>>
  /\ resized = FALSE
  /\ compared = 0
  /\ spawned = 0 /\ joined = 0
  /\ dst_start = dst /\ dst_start_exists = dst_exists
  /\ dst_prep = <<>>
  /\ run = 1 /\ second = "none"
  /\ first = NoResult


\* --------------------------------------------------------- ways copy ends

\* an .unwrap() on an Err in the calling thread: the process aborts
Panic ==
  /\ pc' = "panicked"
  /\ outcome' = "Panic"

\* a read, write or resize call fails
IoFailure(call) ==
  /\ io_failed' = TRUE
  /\ io_failed_at' = IF io_failed THEN io_failed_at ELSE <<Len(writes), compared, call>>

\* mutant: the caller's guards outlive the loop body
CallerUnlock_Keep == locks

\* the guards the caller holds are dropped when the loop body is left
CallerUnlock == [m \in DOMAIN locks |-> IF locks[m] = "caller" THEN "none" ELSE locks[m]]

\* ------------------------------------------------------------ size resolver

\* a size that was resolved, and the panic of an unwrap() on the way to it
Ok(n) == [panic |-> FALSE, size |-> n]
Panicked == [panic |-> TRUE, size |-> 0]

\* mutant: a failed open or capacity query is taken as a capacity of 0
get_device_size_Zero(query_ok, content) == Ok(IF query_ok THEN Len(content) ELSE 0)

\* get_device_size(path): the BLKGETSIZE64 capacity; the open and the ioctl
\* are unwrapped
get_device_size(query_ok, content) ==
  IF query_ok THEN Ok(Len(content)) ELSE Panicked

\* filesize(path): 0 when the path cannot be canonicalized; the capacity of a
\* block device; else the metadata length, or 0 when metadata cannot be read
filesize(exists, blk, meta_ok, query_ok, content) ==
  IF ~exists THEN Ok(0)
  ELSE IF blk THEN get_device_size(query_ok, content)
  ELSE IF meta_ok THEN Ok(Len(content)) ELSE Ok(0)

\* ------------------------------------------------- copy: before the loop

\* let src_size = filesize(src_path).unwrap(); let dst_size = filesize(dst_path).unwrap()
\* the source is a file or a block device; metadata and capacity queries may fail
Sizes ==
  /\ pc = "start"
  /\ \E src_blk, src_meta_ok, src_query_ok, dst_meta_ok, dst_query_ok \in BOOLEAN :
       LET s == filesize(src_exists, src_blk, src_meta_ok, src_query_ok, src)
           d == filesize(dst_exists, dst_is_blk, dst_meta_ok, dst_query_ok, dst)
       IN  IF s.panic \/ d.panic
             THEN /\ pc' = "panicked"
                  /\ outcome' = "DeviceQueryError"
                  /\ UNCHANGED sizes
             ELSE /\ src_size' = s.size
                  /\ dst_size' = d.size
                  /\ pc' = "check_empty"
                  /\ UNCHANGED outcome
  /\ UNCHANGED <<env, harness, threads, dst, dst_exists, config, buffer_src,
                 buffer_dst, src_cursor, dst_cursor, src_len, dst_len, counters,
                 scan, wpc, locks, io_failed, io_failed_at, writes, resized,
                 compared, dst_prep>>

\* mutant: the test is one an unsigned size never passes
EmptySource_Negative == src_size < 0

\* src_size == 0
EmptySource == src_size = 0

\* if src_size == 0 { return }
CheckEmpty ==
  /\ pc = "check_empty"
  /\ IF EmptySource
       THEN pc' = "done" /\ outcome' = "EmptySource"
       ELSE pc' = "open_src" /\ UNCHANGED outcome
  /\ UNCHANGED <<env, harness, threads, dst, dst_exists, sizes, config, buffer_src,
                 buffer_dst, src_cursor, dst_cursor, src_len, dst_len, counters,
                 scan, wpc, locks, io_failed, io_failed_at, writes, resized,
                 compared, dst_prep>>

\* File::open(src_path), or process::exit(1)
OpenSrc ==
  /\ pc = "open_src"
  /\ \/ pc' = "open_dst" /\ UNCHANGED outcome
     \/ pc' = "exited" /\ outcome' = "OpenError"
  /\ UNCHANGED <<env, harness, threads, dst, dst_exists, sizes, config, buffer_src,
                 buffer_dst, src_cursor, dst_cursor, src_len, dst_len, counters,
                 scan, wpc, locks, io_failed, io_failed_at, writes, resized,
                 compared, dst_prep>>

\* OpenOptions::new().create(true).read(true).write(true).open(dst_path),
\* or process::exit(1); a missing destination is created empty
OpenDst ==
  /\ pc = "open_dst"
  /\ \/ pc' = "prepare" /\ dst_exists' = TRUE /\ UNCHANGED outcome
     \/ pc' = "exited" /\ outcome' = "OpenError" /\ UNCHANGED dst_exists
  /\ UNCHANGED <<env, harness, threads, dst, sizes, config, buffer_src,
                 buffer_dst, src_cursor, dst_cursor, src_len, dst_len, counters,
                 scan, wpc, locks, io_failed, io_failed_at, writes, resized,
                 compared, dst_prep>>

\* dst_size != src_size && !is_block_device(dst_path)
MustTruncate == dst_size # src_size /\ ~dst_is_blk

\* mutant: the size comparison is the wrong way round
TooSmall_Flipped == dst_is_blk /\ dst_size > src_size

\* is_block_device(dst_path) && dst_size < src_size
TooSmall == dst_is_blk /\ dst_size < src_size

\* the truncate / too-small branch; the result of ftruncate64 is not looked at
Prepare ==
  /\ pc = "prepare"
  /\ IF MustTruncate
       THEN /\ resized' = TRUE
            /\ pc' = "alloc"
            /\ UNCHANGED outcome
            /\ \/ dst' = Ftruncate(dst, src_size) /\ UNCHANGED <<io_failed, io_failed_at>>
               \/ IoFailure("resize") /\ UNCHANGED dst
       ELSE /\ IF TooSmall
                 THEN pc' = "done" /\ outcome' = "DestinationTooSmall"
                 ELSE pc' = "alloc" /\ UNCHANGED outcome
            /\ UNCHANGED <<dst, resized, io_failed, io_failed_at>>
  /\ UNCHANGED <<env, harness, threads, dst_exists, sizes, config, buffer_src,
                 buffer_dst, src_cursor, dst_cursor, src_len, dst_len, counters,
                 scan, wpc, locks, writes, compared, dst_prep>>

\* buffer and block sizes, the two zeroed buffers, fp and bytes_written
Alloc ==
  /\ pc = "alloc"
  /\ buffer_size' = MiB * buffer_arg
  /\ block_size' = KiB * chunck_size
  /\ buffer_src' = ZeroVec(MiB * buffer_arg)
  /\ buffer_dst' = ZeroVec(MiB * buffer_arg)
  /\ fp' = 0
  /\ bytes_written' = 0
  /\ src_len' = 0
  /\ dst_prep' = dst
  /\ pc' = IF threaded THEN "t_spawn" ELSE "u_read_src"
  /\ UNCHANGED <<env, harness, threads, dst, dst_exists, outcome, sizes,
                 src_cursor, dst_cursor, dst_len, scan, wpc, locks,
                 io_failed, io_failed_at, writes, resized, compared>>

\* ---------------------------------------------------- the un-threaded loop

\* let src_len = src_file.read(&mut buffer_src).unwrap()
UReadSrc ==
  /\ pc = "u_read_src"
  /\ \/ /\ src_len' = ReadLen(src, src_cursor, buffer_src)
        /\ buffer_src' = ReadInto(src, src_cursor, buffer_src)
        /\ src_cursor' = src_cursor + ReadLen(src, src_cursor, buffer_src)
        /\ pc' = "u_read_dst"
        /\ UNCHANGED <<outcome, io_failed, io_failed_at>>
     \/ /\ IoFailure("read") /\ Panic
        /\ UNCHANGED <<src_len, buffer_src, src_cursor>>
  /\ UNCHANGED <<env, harness, threads, dst, dst_exists, sizes, config, buffer_dst,
                 dst_cursor, dst_len, counters, scan, wpc, locks, writes,
                 resized, compared, dst_prep>>

\* let dst_len = dst_file.read(&mut buffer_dst).unwrap()
UReadDst ==
  /\ pc = "u_read_dst"
  /\ \/ /\ dst_len' = ReadLen(dst, dst_cursor, buffer_dst)
        /\ buffer_dst' = ReadInto(dst, dst_cursor, buffer_dst)
        /\ dst_cursor' = dst_cursor + ReadLen(dst, dst_cursor, buffer_dst)
        /\ pc' = "u_check"
        /\ UNCHANGED <<outcome, io_failed, io_failed_at>>
     \/ /\ IoFailure("read") /\ Panic
        /\ UNCHANGED <<dst_len, buffer_dst, dst_cursor>>
  /\ UNCHANGED <<env, harness, threads, dst, dst_exists, sizes, config, buffer_src,
                 src_cursor, src_len, counters, scan, wpc, locks, writes,
                 resized, compared, dst_prep>>

\* if src_len == 0 || dst_len == 0 { break }
EndOfData == src_len = 0 \/ dst_len = 0

\* mutant: the read lengths are never compared
LenMismatch_Never == FALSE

\* if src_len != dst_len { println!("Read len are not equal !"); break }
LenMismatch == src_len # dst_len

\* the two break tests of an iteration
UCheck ==
  /\ pc = "u_check"
  /\ IF EndOfData THEN pc' = "done" /\ outcome' = "Eof"
     ELSE IF LenMismatch THEN pc' = "done" /\ outcome' = "LengthMismatch"
     ELSE pc' = "u_compare" /\ UNCHANGED outcome
  /\ UNCHANGED <<env, harness, threads, dst, dst_exists, sizes, config, buffer_src,
                 buffer_dst, src_cursor, dst_cursor, src_len, dst_len, counters,
                 scan, wpc, locks, io_failed, io_failed_at, writes, resized,
                 compared, dst_prep>>

\* mutant: the cursor advances by the buffer capacity
Advanced_ByBuffer == fp + buffer_size

\* the cursor after fp += src_len, the last statement of an iteration in
\* either loop
Advanced == fp + src_len

\* mutant: every window is taken to differ
BuffersDiffer_Always == TRUE

\* buffer_src != buffer_dst: the two vectors, in their whole length
BuffersDiffer == buffer_src # buffer_dst

\* mutant: the whole buffer is written, not the bytes read
UWriteData_WholeBuffer == buffer_src

\* &buffer_src[0 .. src_len]
UWriteData == Slice(buffer_src, 0, src_len)

\* if buffer_src != buffer_dst
UCompare ==
  /\ pc = "u_compare"
  /\ compared' = compared + 1
  /\ pc' = IF BuffersDiffer THEN "u_write" ELSE "u_advance"
  /\ UNCHANGED <<env, harness, threads, dst, dst_exists, outcome, sizes, config,
                 buffer_src, buffer_dst, src_cursor, dst_cursor, src_len,
                 dst_len, counters, scan, wpc, locks, io_failed, io_failed_at,
                 writes, resized, dst_prep>>

\* dst_file.write_at(&buffer_src[0 .. src_len], fp as u64).unwrap(); bytes_written += src_len
UWrite ==
  /\ pc = "u_write"
  /\ \/ /\ dst' = WriteAt(dst, UWriteData, fp)
        /\ writes' = Append(writes, <<fp, Len(UWriteData)>>)
        /\ bytes_written' = bytes_written + src_len
        /\ pc' = "u_advance"
        /\ UNCHANGED <<outcome, io_failed, io_failed_at>>
     \/ /\ IoFailure("write") /\ Panic
        /\ UNCHANGED <<dst, writes, bytes_written>>
  /\ UNCHANGED <<env, harness, threads, dst_exists, sizes, config, buffer_src,
                 buffer_dst, src_cursor, dst_cursor, src_len, dst_len, fp,
                 scan, wpc, locks, resized, compared, dst_prep>>

\* fp += src_len
UAdvance ==
  /\ pc = "u_advance"
  /\ fp' = Advanced
  /\ pc' = "u_read_src"
  /\ UNCHANGED <<env, harness, threads, dst, dst_exists, outcome, sizes, config,
                 buffer_src, buffer_dst, src_cursor, dst_cursor, src_len,
                 dst_len, bytes_written, scan, wpc, locks, io_failed,
                 io_failed_at, writes, resized, compared, dst_prep>>


\* ------------------------------------------------------- the threaded loop

\* thread::spawn(move || { ... })
Spawn ==
  /\ pc = "t_spawn"
  /\ wpc = "none"
  /\ wpc' = "lock_len"
  /\ pc' = "t_read_dst"
  /\ spawned' = spawned + 1 /\ UNCHANGED joined
  /\ UNCHANGED <<env, harness, dst, dst_exists, outcome, sizes, config,
                 buffer_src, buffer_dst, src_cursor, dst_cursor, src_len,
                 dst_len, counters, scan, locks, io_failed, io_failed_at,
                 writes, resized, compared, dst_prep>>

\* worker: one of the three .lock().unwrap() calls, in the order of the closure
WorkerLock(at, m, next) ==
  /\ wpc = at
  /\ locks[m] = "none"
  /\ locks' = [locks EXCEPT ![m] = "worker"]
  /\ wpc' = next
  /\ UNCHANGED <<env, harness, threads, dst, dst_exists, pc, outcome, sizes, config,
                 buffer_src, buffer_dst, src_cursor, dst_cursor, src_len,
                 dst_len, counters, scan, io_failed, io_failed_at, writes,
                 resized, compared, dst_prep>>

WorkerLockLen  == WorkerLock("lock_len", "src_len", "lock_file")
WorkerLockFile == WorkerLock("lock_file", "src_file", "lock_buf")
WorkerLockBuf  == WorkerLock("lock_buf", "buffer_src", "read")

\* the locks the worker holds are released when its closure ends or unwinds
WorkerUnlock == [m \in DOMAIN locks |-> IF locks[m] = "worker" THEN "none" ELSE locks[m]]

\* worker: *src_len = (*src_file).read(&mut *buffer_src).unwrap(), the last
\* statement of the closure: the worker then ends and its three guards drop
WorkerRead ==
  /\ wpc = "read"
  /\ locks' = WorkerUnlock
  /\ \/ /\ src_len' = ReadLen(src, src_cursor, buffer_src)
        /\ buffer_src' = ReadInto(src, src_cursor, buffer_src)
        /\ src_cursor' = src_cursor + ReadLen(src, src_cursor, buffer_src)
        /\ wpc' = "finished"
        /\ UNCHANGED <<io_failed, io_failed_at>>
     \/ /\ IoFailure("read")
        /\ wpc' = "panicked"
        /\ UNCHANGED <<src_len, buffer_src, src_cursor>>
  /\ UNCHANGED <<env, harness, threads, dst, dst_exists, pc, outcome, sizes, config,
                 buffer_dst, dst_cursor, dst_len, counters, scan, writes,
                 resized, compared, dst_prep>>

\* let dst_len = dst_file.read(&mut buffer_dst).unwrap(), while the worker runs
TReadDst ==
  /\ pc = "t_read_dst"
  /\ \/ /\ dst_len' = ReadLen(dst, dst_cursor, buffer_dst)
        /\ buffer_dst' = ReadInto(dst, dst_cursor, buffer_dst)
        /\ dst_cursor' = dst_cursor + ReadLen(dst, dst_cursor, buffer_dst)
        /\ pc' = "t_join"
        /\ UNCHANGED <<outcome, io_failed, io_failed_at>>
     \/ /\ IoFailure("read") /\ Panic
        /\ UNCHANGED <<dst_len, buffer_dst, dst_cursor>>
  /\ UNCHANGED <<env, harness, threads, dst, dst_exists, sizes, config, buffer_src,
                 src_cursor, src_len, counters, scan, wpc, locks, writes,
                 resized, compared, dst_prep>>

\* mutant: join returns without waiting for the worker
WorkerEnded_NoWait == TRUE

\* the worker's closure has returned or unwound: join() returns only then
WorkerEnded == wpc \in {"finished", "panicked"}

\* mutant: the handle is dropped, the worker is left running and never joined
Join_Detached ==
  /\ pc = "t_join"
  /\ pc' = "t_lock"
  /\ UNCHANGED <<env, harness, threads, dst, dst_exists, outcome, sizes, config,
                 buffer_src, buffer_dst, src_cursor, dst_cursor, src_len, dst_len,
                 counters, scan, wpc, locks, io_failed, io_failed_at, writes,
                 resized, compared, dst_prep>>

\* thandle.join().unwrap(): returns when the worker has ended; Err if it panicked
Join ==
  /\ pc = "t_join"
  /\ WorkerEnded
  /\ wpc' = "none"
  /\ IF wpc = "panicked"
       THEN Panic
       ELSE pc' = "t_lock" /\ UNCHANGED outcome
  /\ joined' = joined + 1 /\ UNCHANGED spawned
  /\ UNCHANGED <<env, harness, dst, dst_exists, sizes, config, buffer_src,
                 buffer_dst, src_cursor, dst_cursor, src_len, dst_len, counters,
                 scan, locks, io_failed, io_failed_at, writes, resized,
                 compared, dst_prep>>

\* let src_len = src_len2.lock().unwrap(); let buffer_src = buffer_src2.lock().unwrap()
CallerLock ==
  /\ pc = "t_lock"
  /\ locks["src_len"] = "none"
  /\ locks["buffer_src"] = "none"
  /\ locks' = [locks EXCEPT !["src_len"] = "caller", !["buffer_src"] = "caller"]
  /\ pc' = "t_check"
  /\ UNCHANGED <<env, harness, threads, dst, dst_exists, outcome, sizes, config,
                 buffer_src, buffer_dst, src_cursor, dst_cursor, src_len,
                 dst_len, counters, scan, wpc, io_failed, io_failed_at, writes,
                 resized, compared, dst_prep>>

\* the two break tests of an iteration
TCheck ==
  /\ pc = "t_check"
  /\ IF EndOfData THEN pc' = "done" /\ outcome' = "Eof" /\ locks' = CallerUnlock
     ELSE IF LenMismatch
       THEN pc' = "done" /\ outcome' = "LengthMismatch" /\ locks' = CallerUnlock
     ELSE pc' = "t_compare" /\ UNCHANGED <<outcome, locks>>
  /\ UNCHANGED <<env, harness, threads, dst, dst_exists, sizes, config, buffer_src,
                 buffer_dst, src_cursor, dst_cursor, src_len, dst_len, counters,
                 scan, wpc, io_failed, io_failed_at, writes, resized,
                 compared, dst_prep>>

\* if *buffer_src != buffer_dst { block_start_pos = 0; block_pos = 0; current_block_differ = false; loop ... }
TCompare ==
  /\ pc = "t_compare"
  /\ compared' = compared + 1
  /\ IF BuffersDiffer
       THEN /\ block_start_pos' = 0
            /\ block_pos' = 0
            /\ current_block_differ' = FALSE
            /\ pc' = "t_scan"
       ELSE /\ pc' = "t_advance"
            /\ UNCHANGED scan
  /\ UNCHANGED <<env, harness, threads, dst, dst_exists, outcome, sizes, config,
                 buffer_src, buffer_dst, src_cursor, dst_cursor, src_len,
                 dst_len, counters, wpc, locks, io_failed, io_failed_at,
                 writes, resized, dst_prep>>

\* if block_size + block_pos > *src_len
ClampBlock == block_size + block_pos > src_len

\* mutant: the last sub-block is not cut to the window
ThisBlockSize_Unclamped == block_size

\* the sub-block length of this pass: block_size, or *src_len - block_pos
ThisBlockSize == IF ClampBlock THEN src_len - block_pos ELSE block_size

\* mutant: every sub-block of a differing window is taken to differ
BlockDiffers_Always(a, b) == TRUE

\* buffer_src[block_pos .. next_block_pos] != buffer_dst[block_pos .. next_block_pos]
BlockDiffers(a, b) == Slice(buffer_src, a, b) # Slice(buffer_dst, a, b)

\* mutant: the run is written at the window's start
RunOffset_WindowStart == fp

\* mutant: the run is counted from the window's start
RunLength_FromWindowStart == block_pos

\* offset and length of the run a write_at of the scan writes
RunOffset == fp + block_start_pos
RunLength == block_pos - block_start_pos

\* dst_file.write_at(&buffer_src[block_start_pos .. block_pos], fp + block_start_pos).unwrap();
\* bytes_written += block_pos - block_start_pos
WriteRun(next) ==
  \/ /\ dst' = WriteAt(dst, Slice(buffer_src, block_start_pos, block_pos), RunOffset)
     /\ writes' = Append(writes, <<RunOffset, RunLength>>)
     /\ bytes_written' = bytes_written + RunLength
     /\ pc' = next
     /\ UNCHANGED <<outcome, io_failed, io_failed_at>>
  \/ /\ IoFailure("write") /\ Panic
     /\ UNCHANGED <<dst, writes, bytes_written>>

NoWrite(next) ==
  /\ pc' = next
  /\ UNCHANGED <<dst, writes, bytes_written, outcome, io_failed, io_failed_at>>

\* one pass of the inner loop of the sub-block scan
ScanStep ==
  /\ pc = "t_scan"
  /\ IF ClampBlock /\ ThisBlockSize <= 0
       THEN \* the window is exhausted: flush the open run and break
            /\ IF current_block_differ THEN WriteRun("t_advance") ELSE NoWrite("t_advance")
            /\ UNCHANGED scan
       ELSE /\ block_pos' = block_pos + ThisBlockSize
            /\ IF BlockDiffers(block_pos, block_pos + ThisBlockSize)
                 THEN /\ block_start_pos' =
                           IF current_block_differ THEN block_start_pos ELSE block_pos
                      /\ current_block_differ' = TRUE
                      /\ NoWrite("t_scan")
                 ELSE /\ IF current_block_differ THEN WriteRun("t_scan") ELSE NoWrite("t_scan")
                      /\ current_block_differ' = FALSE
                      /\ UNCHANGED block_start_pos
  /\ UNCHANGED <<env, harness, threads, dst_exists, sizes, config, buffer_src,
                 buffer_dst, src_cursor, dst_cursor, src_len, dst_len, fp,
                 wpc, locks, resized, compared, dst_prep>>

\* fp += *src_len; the caller's two guards are dropped at the end of the body
TAdvance ==
  /\ pc = "t_advance"
  /\ fp' = Advanced
  /\ locks' = CallerUnlock
  /\ pc' = "t_spawn"
  /\ UNCHANGED <<env, harness, threads, dst, dst_exists, outcome, sizes, config,
                 buffer_src, buffer_dst, src_cursor, dst_cursor, src_len,
                 dst_len, bytes_written, scan, wpc, io_failed, io_failed_at,
                 writes, resized, compared, dst_prep>>


\* ------------------------------------------------------ second invocation

Result == [ended |-> TRUE, dst |-> dst, bytes_written |-> bytes_written,
           writes |-> writes, outcome |-> outcome, io_failed |-> io_failed]

\* what the first invocation printed: "Total bytes written"
Report == [NoResult EXCEPT !.ended = TRUE, !.bytes_written = bytes_written]

\* the state of a fresh call of copy
Fresh ==
  /\ pc' = "start"
  /\ outcome' = "running"
  /\ src_size' = 0 /\ dst_size' = 0
  /\ buffer_size' = 0 /\ block_size' = 0
  /\ buffer_src' = <<>> /\ buffer_dst' = <<>>
  /\ src_cursor' = 0 /\ dst_cursor' = 0
  /\ src_len' = 0 /\ dst_len' = 0
  /\ fp' = 0 /\ bytes_written' = 0
  /\ block_start_pos' = 0 /\ block_pos' = 0 /\ current_block_differ' = FALSE
  /\ wpc' = "none"
  /\ locks' = NoLocks
  /\ io_failed' = FALSE /\ io_failed_at' = <<0, 0, "none">>
  /\ writes' = <<>>
  /\ resized' = FALSE
  /\ compared' = 0
  /\ spawned' = 0 /\ joined' = 0
  /\ dst_prep' = <<>>

\* the sizes this invocation resolved are the lengths of the two paths (no
\* metadata read fell back to 0)
SizesTrue ==
  /\ src_size = Len(src)
  /\ dst_size = Len(dst_start)

\* main is run a second time with the same arguments, after the first returned
\* without a failed system call
RunAgain ==
  /\ pc = "done" /\ run = 1 /\ ~io_failed /\ SizesTrue
  /\ run' = 2 /\ second' = "again"
  /\ first' = Report
  /\ dst_start' = dst /\ dst_start_exists' = dst_exists
  /\ Fresh
  /\ UNCHANGED <<env, dst, dst_exists>>

\* main is run without --thread on the same source and the destination as it
\* was before the threaded invocation, which returned without a failed system call
RunOtherMode ==
  /\ pc = "done" /\ run = 1 /\ threaded /\ ~io_failed /\ SizesTrue
  /\ run' = 2 /\ second' = "other"
  /\ first' = Result
  /\ threaded' = FALSE
  /\ dst' = dst_start /\ dst_exists' = dst_start_exists
  /\ Fresh
  /\ UNCHANGED <<src, src_exists, dst_is_blk, buffer_arg, chunck_size,
                 dst_start, dst_start_exists>>

\* -------------------------------------------------------------------- Next

\* a step of the calling thread
Caller ==
  \/ Sizes \/ CheckEmpty \/ OpenSrc \/ OpenDst \/ Prepare \/ Alloc
  \/ UReadSrc \/ UReadDst \/ UCheck \/ UCompare \/ UWrite \/ UAdvance
  \/ Spawn \/ TReadDst \/ Join \/ CallerLock \/ TCheck \/ TCompare
  \/ ScanStep \/ TAdvance

\* a step of the worker thread
Worker == WorkerLockLen \/ WorkerLockFile \/ WorkerLockBuf \/ WorkerRead

\* one invocation of copy
Next == Caller \/ Worker

Spec == Init /\ [][Next]_vars

\* one invocation of copy in which the operating system schedules every
\* thread that can run
FairSpec == Spec /\ WF_vars(Caller) /\ WF_vars(Worker)

\* one invocation of copy, optionally followed by a second one
NextTwice == Next \/ RunAgain \/ RunOtherMode

SpecTwice == Init /\ [][NextTwice]_vars


\* ================================================================= claims

\* positions of the calling thread inside the copy loop
LoopPcs == {"u_read_src", "u_read_dst", "u_check", "u_compare", "u_write",
            "u_advance",
            "t_spawn", "t_read_dst", "t_join", "t_lock", "t_check",
            "t_compare", "t_scan", "t_advance"}

\* copy returned after running its loop
LoopEnded == pc = "done" /\ outcome \in {"Eof", "LengthMismatch"}

\* file a and file b hold the same bytes at the 1-based offsets 1..n
SamePrefix(a, b, n) ==
  /\ Len(a) >= n /\ Len(b) >= n
  /\ \A o \in 1..n : a[o] = b[o]

\* C1: after a run of copy that ends without an I/O failure (the destination
\* being a regular file, or a block device at least as large as the source),
\* every destination byte at an offset of [0, src_size) equals the source byte.
C1_DestinationEqualsSource ==
  (pc = "done" /\ ~io_failed /\ outcome # "DestinationTooSmall")
     => SamePrefix(dst, src, src_size)

\* C1 (cases): the same, for a destination that is a regular file
C1_RegularFileEqualsSource ==
  (pc = "done" /\ ~io_failed /\ ~dst_is_blk) => SamePrefix(dst, src, src_size)


\* the destination holds the source already when this invocation starts: a
\* regular file equal to the source, a block device equal to it over [0, src_size)
EqualAtStart ==
  /\ dst_start_exists
  /\ SamePrefix(dst_start, src, Len(src))
  /\ ~dst_is_blk => Len(dst_start) = Len(src)

\* C2: the second of two successive runs of copy on the same pair (the first
\* having returned without a failed call) issues no write and keeps
\* bytes_written = 0; and a run that starts on a destination already equal to
\* the source issues no write call and leaves the destination unchanged.
C2_Idempotent ==
  /\ second = "again" => (writes = <<>> /\ bytes_written = 0)
  /\ EqualAtStart => (writes = <<>> /\ bytes_written = 0 /\ dst = dst_start)

\* C2 witness: a second run has gone through its windows after a first run
\* that wrote, in threaded mode, with a short final window
C2_Witness ==
  /\ second = "again" /\ pc = "done" /\ outcome = "Eof"
  /\ threaded /\ compared >= 2 /\ first.bytes_written > 0
  /\ Len(src) % buffer_size # 0

\* C3: for the same source, initial destination, buffer capacity and block
\* size, and with no failed call or size fallback in either run, the
\* destination after the un-threaded run equals the destination after the
\* threaded run.
C3_SameContent ==
  (second = "other" /\ pc = "done" /\ ~io_failed /\ SizesTrue) => dst = first.dst

\* C3 witness: both runs ended after writing, with different write calls
C3_Witness ==
  /\ second = "other" /\ pc = "done" /\ ~io_failed /\ SizesTrue
  /\ writes # <<>> /\ writes # first.writes /\ compared >= 2

\* C4: under the same conditions the reported bytes_written and the sequence
\* of (offset, length) write calls are the same in both modes.
C4_SameWrites ==
  (second = "other" /\ pc = "done" /\ ~io_failed /\ SizesTrue)
     => (bytes_written = first.bytes_written /\ writes = first.writes)

\* the byte at 1-based offset o differs between the source and the
\* destination as it was when the loop started
Differs(o) == o > Len(dst_prep) \/ dst_prep[o] # src[o]

\* number of offsets of [0, src_size) at which the two differ
DiffBytes == Cardinality({o \in 1..Len(src) : Differs(o)})

\* the offsets (1-based) of the comparison sub-block that holds offset o: the
\* sub-blocks of a window start at multiples of block_size from the window's
\* start and end with the window
SubBlockOf(o) ==
  LET w  == (o - 1) \div buffer_size
      ws == w * buffer_size
      b  == (o - 1 - ws) \div block_size
      lo == ws + b * block_size
      hi == Min(Min(lo + block_size, ws + buffer_size), Len(src))
  IN  (lo + 1)..hi

\* number of offsets of [0, src_size) lying in a sub-block that holds a
\* differing offset
DiffBlockBytes ==
  Cardinality({o \in 1..Len(src) : \E q \in SubBlockOf(o) : Differs(q)})

C6_ResizedBeforeLoop ==
  (~dst_is_blk /\ dst_size # src_size /\ pc \in LoopPcs) => Len(dst) = src_size

\* C6 (cases): the same, in the runs in which the resize call did not fail
C6_ResizedUnlessResizeFailed ==
  (~dst_is_blk /\ dst_size # src_size /\ pc \in LoopPcs /\ ~io_failed)
     => (Len(dst) = src_size /\ resized)

\* the destination is a block device smaller than the source
TooSmallCase == dst_is_blk /\ dst_size < src_size

\* C7: when the destination is a block device and dst_size < src_size, copy
\* returns before its loop: nothing is read or compared, no write or resize
\* is issued, bytes_written stays 0 and the destination is unmodified.
C7_TooSmallAborts ==
  TooSmallCase =>
    /\ pc \notin LoopPcs /\ pc # "alloc"
    /\ pc = "done" => outcome = "DestinationTooSmall"
    /\ compared = 0 /\ dst_cursor = 0 /\ src_cursor = 0
    /\ writes = <<>> /\ ~resized /\ bytes_written = 0
    /\ dst = dst_start

\* C7 witness: copy returned on a too small block device
C7_Witness ==
  TooSmallCase /\ pc = "done" /\ outcome = "DestinationTooSmall" /\ Len(dst) > 0

\* C8: when the source size resolves to 0 (an empty source, or a missing one),
\* copy returns before the destination is opened: it is never created,
\* resized or written.
C8_EmptySourceAborts ==
  (src_size = 0 /\ outcome # "DeviceQueryError") =>
    /\ pc \in {"start", "check_empty", "done"}
    /\ pc = "done" => outcome = "EmptySource"
    /\ dst_exists = dst_start_exists
    /\ dst = dst_start
    /\ ~resized /\ writes = <<>>

\* C8 witness: copy returned on an empty source, a non-empty regular file as
\* destination
C8_Witness ==
  /\ src_size = 0 /\ pc = "done" /\ outcome = "EmptySource"
  /\ ~dst_is_blk /\ Len(dst) > 0

\* C9: every write call covers offsets of [0, src_size) only; a block device
\* is never resized and keeps its bytes at the offsets >= src_size.
C9_NoWritePastSource ==
  /\ \A i \in 1..Len(writes) :
        /\ writes[i][1] >= 0 /\ writes[i][2] >= 0
        /\ writes[i][1] + writes[i][2] <= Len(src)
  /\ \A o \in (Len(src) + 1)..Len(dst_start) : o <= Len(dst) => dst[o] = dst_start[o]
  /\ dst_is_blk => (~resized /\ Len(dst) = Len(dst_start))

\* C9 witness: a write has been issued to a block device larger than the source
C9_Witness ==
  /\ dst_is_blk /\ Len(dst) > Len(src) /\ writes # <<>> /\ pc = "done"
  /\ dst # dst_start

\* C10: once a read, write or resize call has failed, no further window is
\* compared and no further write is issued.
C10_FailureIsTerminal ==
  io_failed => (Len(writes) = io_failed_at[1] /\ compared = io_failed_at[2])


\* C10 (cases): a failed read or write call is terminal; only the failed
\* resize is not
C10_ReadWriteFailureIsTerminal ==
  (io_failed /\ io_failed_at[3] # "resize")
     => (Len(writes) = io_failed_at[1] /\ compared = io_failed_at[2]
         /\ (pc = "panicked" \/ wpc = "panicked"))

\* C10 (cases): a write is issued after the resize failed
C10_NoWriteAfterFailedResize ==
  (io_failed /\ io_failed_at[3] = "resize") => writes = <<>>

\* C11: filesize gives 0 for a path that does not exist and, for a path that
\* is not a block device, the metadata length or 0 when the metadata cannot be
\* read; for a block device it gives the queried capacity, and a failed open
\* or capacity query ends the run in an error, never in a size of 0.  A
\* missing destination is so taken as size 0 and created; a missing source is
\* reported as an empty source.
C11_SizeResolver ==
  /\ outcome = "DeviceQueryError" =>
        (pc = "panicked" /\ dst = dst_start /\ dst_exists = dst_start_exists)
  /\ (pc # "start" /\ outcome # "DeviceQueryError") =>
        /\ ~src_exists => src_size = 0
        /\ src_exists => src_size \in {Len(src), 0}
        /\ ~dst_start_exists => dst_size = 0
        /\ dst_is_blk => dst_size = Len(dst_start)
        /\ (dst_start_exists /\ ~dst_is_blk) => dst_size \in {Len(dst_start), 0}
        /\ (~src_exists /\ pc # "check_empty") =>
              (pc = "done" /\ outcome = "EmptySource")
        /\ (~dst_start_exists /\ pc \in LoopPcs \cup {"prepare", "alloc"}) => dst_exists

\* C11 witness: a missing destination was taken as size 0, created and filled
C11_Witness ==
  /\ ~dst_start_exists /\ dst_exists /\ dst_size = 0
  /\ pc = "done" /\ outcome = "Eof" /\ dst = src /\ Len(src) > 1

\* the comparison sub-block that holds the 1-based offset o holds a differing byte
SubBlockDiffers(o) == \E q \in SubBlockOf(o) : Differs(q)

\* the 1-based offsets a write call <<offset, length>> covers
Covered(w) == (w[1] + 1)..(w[1] + w[2])

\* first offset (0-based) of the window that holds the 1-based offset o
WindowStart(o) == ((o - 1) \div buffer_size) * buffer_size

\* the write call w writes exactly one maximal run of differing sub-blocks of
\* one window: whole sub-blocks, each of them differing, with no differing
\* sub-block of the window next to it on either side
IsMaximalRun(w) ==
  /\ w[2] > 0
  /\ \A o \in Covered(w) :
        /\ WindowStart(o) = WindowStart(w[1] + 1)
        /\ SubBlockOf(o) \subseteq Covered(w)
        /\ SubBlockDiffers(o)
  /\ (w[1] >= 1 /\ WindowStart(w[1]) = WindowStart(w[1] + 1)) => ~SubBlockDiffers(w[1])
  /\ (w[1] + w[2] + 1 <= Len(src)
        /\ WindowStart(w[1] + w[2] + 1) = WindowStart(w[1] + 1))
       => ~SubBlockDiffers(w[1] + w[2] + 1)

\* every write call is one maximal differing run, every differing sub-block
\* of the windows gone through is covered by exactly one write call, and no
\* two write calls touch or overlap
DiffRunWrites ==
  /\ \A i \in 1..Len(writes) : IsMaximalRun(writes[i])
  /\ \A o \in 1..fp : SubBlockDiffers(o) =>
        Cardinality({i \in 1..Len(writes) : o \in Covered(writes[i])}) = 1
  /\ \A i, j \in 1..Len(writes) :
        i < j =>
          IF WindowStart(writes[i][1] + 1) = WindowStart(writes[j][1] + 1)
            THEN writes[i][1] + writes[i][2] < writes[j][1]
            ELSE writes[i][1] + writes[i][2] <= writes[j][1]

\* C12: in either mode, each write call of a differing window writes exactly
\* one maximal run of consecutive differing sub-blocks at fp + run_start; no
\* written range holds an identical sub-block, every differing sub-block is
\* covered by exactly one write, and writes of a window never touch or overlap.
C12_DiffRunWrites == DiffRunWrites

\* C12 (cases): the same, for the threaded runs
C12_ThreadedDiffRunWrites == threaded => DiffRunWrites

\* the two buffers hold the same bytes over [0, n), n the length both reads returned
PrefixIdentical ==
  /\ src_len = dst_len
  /\ Slice(buffer_src, 0, src_len) = Slice(buffer_dst, 0, src_len)

\* the calling thread is comparing or writing the window it has read
InWindow == pc \in {"u_compare", "u_write", "t_compare", "t_scan"}

\* a step that issues no write
NoWriteStep == writes' = writes /\ bytes_written' = bytes_written /\ dst' = dst

\* C13: in an iteration with n = src_len = dst_len whose buffers are
\* byte-identical over [0, n), no write is issued and bytes_written is
\* unchanged for that window, whatever the buffers hold at positions >= n.
C13_FastPathOnPrefix ==
  [][(InWindow /\ PrefixIdentical) => NoWriteStep]_vars

\* C13 (cases): the same, for the threaded runs
C13_ThreadedFastPathOnPrefix ==
  [][(threaded /\ InWindow /\ PrefixIdentical) => NoWriteStep]_vars

\* C13 (cases): the state of a threaded run that has scanned a short final
\* window identical over [0, n) while the whole buffers differ
C13_ThreadedStaleTailScanned ==
  /\ threaded /\ pc = "t_scan" /\ PrefixIdentical
  /\ src_len < buffer_size /\ block_pos = src_len

\* total length of the write calls in ws
RECURSIVE TotalLength(_)
TotalLength(ws) == IF ws = <<>> THEN 0 ELSE ws[1][2] + TotalLength(Tail(ws))

\* both reads of this iteration are done and returned lengths that are
\* non-zero and different
MismatchSeen ==
  /\ pc \in {"u_check", "t_check"}
  /\ src_len # 0 /\ dst_len # 0 /\ src_len # dst_len

\* C14: in an iteration whose two reads return non-zero, different lengths the
\* loop ends without comparing or writing that window; fp and bytes_written
\* keep the values of the end of the previous iteration, and copy returns
\* normally with the bytes written so far.
C14_LengthMismatchStops ==
  /\ [](MismatchSeen =>
          (fp + src_len = src_cursor /\ bytes_written = TotalLength(writes)))
  /\ [][MismatchSeen =>
          /\ pc' = "done" /\ outcome' = "LengthMismatch"
          /\ UNCHANGED <<fp, bytes_written, writes, compared, dst>>]_vars

\* C14 witness: copy returned on a length mismatch after writing a window
C14_Witness ==
  /\ pc = "done" /\ outcome = "LengthMismatch" /\ ~io_failed
  /\ bytes_written > 0 /\ fp > 0 /\ fp < src_size

\* the calling thread is at the last statement of an iteration
AtAdvance == pc \in {"u_advance", "t_advance"}

\* C15: in every state of a copy session fp <= src_size; fp never decreases,
\* changes only at the end of a completed iteration, and then grows by exactly
\* n = src_len, the length read in that iteration.
C15_CursorInvariant ==
  /\ [](fp >= 0 /\ fp <= src_size)
  /\ [](pc \in {"u_read_src", "t_spawn"} => fp = src_cursor)
  /\ [][run' = run =>
          /\ fp' >= fp
          /\ fp' # fp => AtAdvance
          /\ AtAdvance => (src_len > 0 /\ src_len = dst_len /\ fp' = fp + src_len)]_vars

\* C15 witness: the cursor reached src_size through a short final window
C15_Witness ==
  /\ AtAdvance /\ fp > 0 /\ fp + src_len = src_size /\ src_len < buffer_size

\* bytes_written never decreases within an invocation
WrittenMonotone == [][run' = run => bytes_written' >= bytes_written]_vars

\* the calling thread is between a write of this iteration and the cursor
\* advance that ends it
AfterWrite == pc \in {"u_advance", "t_scan", "t_advance"}

\* C16 as stated: in every state of a copy session, the states between a
\* write call and the cursor advance included, bytes_written never decreases
\* and bytes_written <= fp.
C16_WrittenAtMostCursor ==
  /\ WrittenMonotone
  /\ [](bytes_written <= fp)

\* C16 as amended: bytes_written never decreases; bytes_written <= fp holds
\* when an iteration starts, up to its first write, and when copy returns;
\* between a write of an iteration and its cursor advance, and when a later
\* write of the same window panics, bytes_written <= fp + n, n = src_len
\* being the length read in the iteration.
C16_WrittenAtMostCursorAtBoundaries ==
  /\ WrittenMonotone
  /\ [](bytes_written >= 0 /\ bytes_written <= fp + src_len)
  /\ []((~AfterWrite /\ pc # "panicked") => bytes_written <= fp)

\* C16 witness: every window so far was written and the cursor has not yet
\* advanced over the last one
C16_Witness ==
  /\ AtAdvance /\ fp > 0 /\ bytes_written = fp + src_len

\* the calling thread reads the shared length and the shared source buffer
CallerUses == pc \in {"t_check", "t_compare", "t_scan", "t_advance"}

\* thread t holds at least one of the three mutexes
Holds(t) == \E m \in DOMAIN locks : locks[m] = t

\* C17: in threaded mode the caller reads the shared length and the shared
\* source buffer only after the worker of the iteration has done its read and
\* stored the length; worker and caller never hold locks at the same time; the
\* length the caller compares is the length of the data in the source buffer.
C17_JoinBeforeUse ==
  /\ CallerUses =>
        /\ wpc = "none"
        /\ locks["src_len"] = "caller" /\ locks["buffer_src"] = "caller"
        /\ src_cursor = fp + src_len
        /\ Slice(buffer_src, 0, src_len) = Slice(src, fp, fp + src_len)
  /\ Holds("caller") => (wpc = "none" /\ ~Holds("worker"))
  /\ Holds("worker") =>
        (wpc \in {"lock_file", "lock_buf", "read"}
           /\ pc \in {"t_read_dst", "t_join", "panicked"})

\* C17 witness: the caller compares the window of a second iteration
C17_Witness ==
  /\ pc = "t_compare" /\ fp > 0 /\ src_len > 0 /\ Holds("caller")

\* the worker thread exists and has not yet ended
WorkerRuns == wpc \in {"lock_len", "lock_file", "lock_buf", "read"}

\* C18: in threaded mode at most one worker exists at any time; one worker is
\* spawned and joined per iteration; the worker of the next iteration is
\* spawned only after this iteration's worker was joined and its comparison,
\* writes and cursor advance are done; each source read is made at the
\* position fp, as in un-threaded mode.
C18_NoPipelining ==
  /\ joined <= spawned /\ spawned <= joined + 1
  /\ wpc # "none" <=> spawned = joined + 1
  /\ ~threaded => spawned = 0
  /\ pc = "t_spawn" =>
        /\ wpc = "none" /\ ~Holds("caller")
        /\ spawned = joined /\ spawned = compared
        /\ fp = src_cursor
  /\ (pc \in {"t_read_dst", "t_join"}) => (spawned = compared + 1 /\ wpc # "none")
  /\ (threaded /\ AtAdvance) => (spawned = compared /\ joined = compared)
  /\ WorkerRuns => src_cursor = fp

\* C18 witness: a threaded run ended after three iterations, each with its worker
C18_Witness ==
  /\ threaded /\ pc = "done" /\ outcome = "Eof"
  /\ spawned = 3 /\ joined = 3 /\ compared = 2 /\ fp = src_size

\* the locks the worker holds at each of its positions: it takes the result
\* slot, the source handle and the source buffer, in this order
WorkerLockOrder ==
  /\ wpc = "lock_len" => ~Holds("worker")
  /\ wpc = "lock_file" =>
        (locks["src_len"] = "worker" /\ locks["src_file"] # "worker"
           /\ locks["buffer_src"] # "worker")
  /\ wpc = "lock_buf" =>
        (locks["src_len"] = "worker" /\ locks["src_file"] = "worker"
           /\ locks["buffer_src"] # "worker")
  /\ wpc = "read" => \A m \in DOMAIN locks : locks[m] = "worker"
  /\ wpc \in {"none", "finished", "panicked"} => ~Holds("worker")

\* no thread waits for a lock that will not be released: the caller holds no
\* lock when a worker is spawned or runs, a worker that has not ended can
\* take its next step, the caller at join can proceed once the worker has
\* ended, and the caller is never blocked on its own two locks
NoDeadlockState ==
  /\ WorkerLockOrder
  /\ pc = "t_spawn" => (~Holds("caller") /\ ~Holds("worker"))
  /\ WorkerRuns => (~Holds("caller") /\ ENABLED Worker)
  /\ pc = "t_join" => (ENABLED Worker \/ ENABLED Join)
  /\ pc = "t_lock" => ENABLED CallerLock

\* C19: the caller's locks are released before the next worker is spawned and
\* the worker takes its three locks in one order, so under every interleaving
\* the worker takes all three locks and ends, and the join returns; no state
\* has the caller in join while the worker waits for a lock the caller holds.
C19_NoDeadlock ==
  /\ []NoDeadlockState
  /\ (pc = "t_join") ~> (pc \in {"t_lock", "panicked"} /\ wpc = "none")

\* C19 witness: the caller waits in join of a second iteration while the
\* worker holds the first two locks and is about to take the third
C19_Witness ==
  /\ pc = "t_join" /\ wpc = "lock_buf" /\ spawned = 2
  /\ locks["src_len"] = "worker" /\ locks["src_file"] = "worker"

\* copy has returned, or the process has exited or panicked
Terminated == pc \in {"done", "exited", "panicked"}

\* a pass of the scan that examines a sub-block: from block_pos, of
\* ThisBlockSize bytes
ScanPass == pc = "t_scan" /\ ~(ClampBlock /\ ThisBlockSize <= 0)

\* C20: for buffer capacities and block sizes >= 1 (a block size larger than
\* the window included) the sub-block scan and the copy loop end in both
\* modes; the passes of a scan examine [0, n) in consecutive sub-blocks of at
\* least one byte, from 0 up to n; and a loop that ends without length
\* mismatch or failed call ends with fp = src_size.
C20_Terminates ==
  /\ <>Terminated
  /\ [](pc = "t_scan" => (block_pos >= 0 /\ block_pos <= src_len))
  /\ [][(pc = "t_compare" /\ pc' = "t_scan") => block_pos' = 0]_vars
  /\ [][ScanPass =>
          \/ pc' = "panicked"
          \/ /\ pc' = "t_scan"
             /\ ThisBlockSize >= 1
             /\ block_pos' = block_pos + ThisBlockSize
             /\ block_pos' <= src_len]_vars
  /\ [][(pc = "t_scan" /\ pc' = "t_advance") => block_pos = src_len]_vars
  /\ []((pc = "done" /\ outcome = "Eof" /\ ~io_failed) => fp = src_size)

\* C20 witness: a threaded run ended at fp = src_size after a scan of a final
\* window shorter than the block size
C20_Witness ==
  /\ threaded /\ pc = "done" /\ outcome = "Eof" /\ ~io_failed
  /\ fp = src_size /\ compared >= 2 /\ writes # <<>>
  /\ block_pos = 1 /\ block_size > 1

====
